---------------------------- MODULE Spec2Model ----------------------------
(* SmartPay front end (frontend_app.py): one Streamlit session.            *)
(* The script is run top to bottom on every page view or button press.     *)
(* pc is the position of the running script; every other variable is a    *)
(* script variable, a rendered element, or a request on the wire.          *)
EXTENDS Integers, Sequences, FiniteSets, TLC

VARIABLES
    pc,          \* position of the running script
    submitted,   \* line 142: the form's submit button was pressed
    payload,     \* line 147
    sent,        \* the requests this run has issued, in order
    call,        \* the blocking call the script is inside, or None
    inflight,    \* number of requests sent and not yet ended
    resp,        \* line 159 / 162
    salary,      \* line 169
    outcome,     \* what the left column shows for the submission
    made,        \* the arguments make_pdf was called with, or None
    report,      \* the document behind the download button, or None
    crashed,     \* the exception that ended the run, or None
    r,           \* line 237
    analysis,    \* what the Live Analysis tab shows
    r2,          \* line 267
    insights,    \* what the Model Insights tab shows
    queued,      \* a button press waits for the running script to stop
    lastReport   \* the previous run's report file (delete=False keeps it)

vars == <<pc, submitted, payload, sent, call, inflight, resp, salary, outcome,
          made, report, crashed, r, analysis, r2, insights, queued, lastReport>>

(* ------------------------------ values -------------------------------- *)

\* Python's None, and every "nothing yet" slot of the page.
None == [kind |-> "None"]

IntV(n) == [t |-> "int", n |-> n]
StrV(s) == [t |-> "str", s |-> s]
NumV(n) == [t |-> "num", n |-> n]
NullV == [t |-> "null"]

\* Timeouts of the three calls, in seconds.
PREDICT_TIMEOUT == 20
ANALYTICS_TIMEOUT == 12

\* Default of data.get("predicted_salary_usd", 0).
DEFAULT_SALARY == 0

\* Bounds of the form's age widget.
MIN_AGE == 17
MAX_AGE == 80

\* Wall-clock readings datetime.now() can give are 0..MaxClock.
MaxClock == 1

BACKEND_URL == "https://smartpay-ai-backend.onrender.com"
API_KEY == None
HEADERS ==
    IF API_KEY # None
    THEN {<<"Content-Type", "application/json">>, <<"x-api-key", API_KEY>>}
    ELSE {<<"Content-Type", "application/json">>}

(* --------------------------- form inputs ------------------------------ *)

Ages == {MIN_AGE, MAX_AGE}
JobTitles == {"Software Engineer"}

\* The widget values at the moment the form is submitted.
FormInputs ==
    [age : Ages, education : {"PhD"}, job_title : JobTitles,
     hours_per_week : {40}, gender : {"Other"}, marital_status : {"Single"}]

\* payload = {...}: a dict keeps insertion order, so it is a sequence of
\* <<key, value>> pairs.
BuildPayload(f) ==
    << <<"age", IntV(f.age)>>,
       <<"education", StrV(f.education)>>,
       <<"job_title", StrV(f.job_title)>>,
       <<"hours_per_week", IntV(f.hours_per_week)>>,
       <<"gender", StrV(f.gender)>>,
       <<"marital_status", StrV(f.marital_status)>> >>

(* ------------------------ text conversions ---------------------------- *)

RECURSIVE Digits(_)
\* Decimal digits of a natural number, most significant first.
Digits(n) == IF n < 10 THEN <<n>> ELSE Append(Digits(n \div 10), n % 10)

RECURSIVE ParseDigits(_)
ParseDigits(d) ==
    IF Len(d) = 0 THEN 0
    ELSE 10 * ParseDigits(SubSeq(d, 1, Len(d) - 1)) + d[Len(d)]

\* requests' json= encoding of one value: a number as digits, a string quoted.
JsonEncode(v) ==
    IF v.t = "int" THEN [j |-> "number", d |-> Digits(v.n)]
    ELSE [j |-> "string", s |-> v.s]

JsonDecode(e) ==
    IF e.j = "number" THEN IntV(ParseDigits(e.d)) ELSE StrV(e.s)

\* The request body: the dict's items, in order, each value JSON-encoded.
JsonBody(p) == [i \in 1..Len(p) |-> <<p[i][1], JsonEncode(p[i][2])>>]

\* f"{v}" of a payload value.
Format(v) ==
    IF v.t = "int" THEN [f |-> "digits", d |-> Digits(v.n)]
    ELSE [f |-> "chars", s |-> v.s]

(* ------------------------- response bodies ---------------------------- *)

\* A JSON object is a sequence of <<key, value>> pairs.
HasKey(obj, k) == \E i \in 1..Len(obj) : obj[i][1] = k

\* dict.get(k, default)
Get(obj, k, default) ==
    IF HasKey(obj, k)
    THEN obj[CHOOSE i \in 1..Len(obj) : obj[i][1] = k][2]
    ELSE default

TextBody == [kind |-> "text", raw |-> "<html>"]
ArrayBody == [kind |-> "array"]
ObjBody(o) == [kind |-> "object", obj |-> o]

\* Salaries are counted in cents: 8543210 is 85432.10.
PredictBodies ==
    {TextBody, ArrayBody, ObjBody(<<>>),
     ObjBody(<< <<"predicted_salary_usd", NullV>> >>),
     ObjBody(<< <<"predicted_salary_usd", StrV("85432.10")>> >>),
     ObjBody(<< <<"predicted_salary_usd", NumV(0)>> >>),
     ObjBody(<< <<"predicted_salary_usd", NumV(8543210)>> >>)}

StatusCodes == {200, 401, 403, 404, 500}

Response(status, body) ==
    [kind |-> "Response", status_code |-> status, body |-> body]


\* float(x): a JSON number converts, so does a numeric string; a
\* non-numeric string raises ValueError and null raises TypeError.
NumericStrings == {"85432.10"}
CanFloat(v) == v.t = "num" \/ (v.t = "str" /\ v.s \in NumericStrings)
\* The value in cents; "85432.10" is the one numeric string of the model.
ToFloat(v) == IF v.t = "num" THEN v.n ELSE 8543210

Float(cents) == [kind |-> "float", cents |-> cents]

(* ------------------------- predict outcomes --------------------------- *)

ConnectionError(cause) == [kind |-> "ConnectionError", cause |-> cause]
Success(sal) == [kind |-> "Success", salary |-> sal]
AuthError == [kind |-> "AuthError"]
ServerError == [kind |-> "ServerError"]

\* try: txt = resp.json()  except Exception: txt = resp.text
BestEffortBody(body) ==
    IF body.kind = "text"
    THEN [structured |-> FALSE, text |-> body.raw]
    ELSE [structured |-> TRUE, json |-> body]

ApiError(status, body) ==
    [kind |-> "ApiError", code |-> status, body |-> BestEffortBody(body)]

(* ----------------------------- the report ----------------------------- *)

\* Mutant of MakePdfDoc: "for k, v in sorted(payload.items())".
MakePdfDoc_Sorted(p, salary_val, now) ==
    [kind |-> "pdf",
     title |-> "SmartPay -- Salary Prediction Report",
     generated |-> now,
     inputs |-> [i \in 1..Len(p) |->
                   LET j == <<1, 2, 5, 4, 3, 6>>[i]
                   IN [key |-> p[j][1], text |-> Format(p[j][2])]],
     salary |-> salary_val]

\* make_pdf(payload, salary_val): the cells written to the page, in order.
MakePdfDoc(p, salary_val, now) ==
    [kind |-> "pdf",
     title |-> "SmartPay -- Salary Prediction Report",
     generated |-> now,
     inputs |-> [i \in 1..Len(p) |-> [key |-> p[i][1], text |-> Format(p[i][2])]],
     salary |-> salary_val]

(* --------------------------- analytics -------------------------------- *)

ObjV(o) == [t |-> "obj", o |-> o]

Unavailable(cause) == [kind |-> "Unavailable", cause |-> cause]

FullSummary ==
    << <<"record_count", NumV(1200)>>, <<"average_salary", NumV(62000)>>,
       <<"max_salary", NumV(250000)>>, <<"min_salary", NumV(18000)>> >>

AnalyzeBodies ==
    {TextBody, ObjBody(<<>>),
     ObjBody(<< <<"summary", NullV>> >>),
     ObjBody(<< <<"summary", ObjV(FullSummary)>> >>),
     ObjBody(<< <<"summary", ObjV(<< <<"record_count", StrV("n/a")>> >>)>> >>)}

\* Lines 238-259: what the Live Analysis tab ends up showing for a response.
AnalyzeOutcome(status, body) ==
    IF status # 200 THEN Unavailable([by |-> "status", code |-> status])
    ELSE IF body.kind = "text" THEN Unavailable([by |-> "JSONDecodeError"])
    ELSE IF body.kind = "array" THEN Unavailable([by |-> "AttributeError"])
    ELSE LET summary == Get(body.obj, "summary", ObjV(<<>>)) IN
         IF summary.t # "obj" THEN Unavailable([by |-> "AttributeError"])
         ELSE LET rec == Get(summary.o, "record_count", NumV(0))
                  avg == Get(summary.o, "average_salary", NumV(0))
                  mx == Get(summary.o, "max_salary", NumV(0))
                  mn == Get(summary.o, "min_salary", NumV(0))
              IN IF rec.t # "num" \/ avg.t # "num" \/ mx.t # "num"
                 THEN Unavailable([by |-> "ValueError"])
                 ELSE [kind |-> "Summary", record_count |-> rec,
                       average_salary |-> avg, max_salary |-> mx,
                       min_salary |-> mn]

ListV(l) == [t |-> "list", l |-> l]

Feature(name, imp) ==
    ObjV(<< <<"feature", StrV(name)>>, <<"importance", NumV(imp)>> >>)

ExplainBodies ==
    {TextBody, ArrayBody, ObjBody(<<>>),
     ObjBody(<< <<"top_features", ListV(<<Feature("age", 40), Feature("education", 60)>>)>> >>),
     ObjBody(<< <<"top_features", ListV(<<ObjV(<< <<"name", StrV("age")>> >>)>>)>> >>)}

\* px.bar(df, x="feature", y="importance") needs both columns in every row.
WellFormedRow(row) ==
    row.t = "obj" /\ HasKey(row.o, "feature") /\ HasKey(row.o, "importance")

\* Lines 268-279: what the Model Insights tab ends up showing for a response.
ExplainOutcome(status, body) ==
    IF status # 200 THEN Unavailable([by |-> "status", code |-> status])
    ELSE IF body.kind = "text" THEN Unavailable([by |-> "JSONDecodeError"])
    ELSE IF body.kind = "array" THEN Unavailable([by |-> "AttributeError"])
    ELSE LET tf == Get(body.obj, "top_features", ListV(<<>>)) IN
         IF tf.t # "list" \/ Len(tf.l) = 0 THEN [kind |-> "NoFeatureInfo"]
         ELSE IF \E i \in 1..Len(tf.l) : ~WellFormedRow(tf.l[i])
              THEN Unavailable([by |-> "ValueError"])
              ELSE [kind |-> "Features", top_features |-> tf.l]

AnalyticsStatusCodes == {200, 503}

\* requests' transport-level exceptions.
TransportCauses == {"ConnectionError", "Timeout"}

(* ----------------------------- requests ------------------------------- *)

Request(method, path, json, timeout) ==
    [method |-> method, url |-> <<BACKEND_URL, path>>, headers |-> HEADERS,
     json |-> json, timeout |-> timeout]

\* The blocking call the script is waiting in.  hung: the backend accepted
\* the connection and never answers.
Call(req, hung) == [kind |-> "Call", timeout |-> req.timeout, hung |-> hung]

Count(path) ==
    Cardinality({i \in 1..Len(sent) : sent[i].url[2] = path})

(* ------------------------------- Init --------------------------------- *)

Init ==
    /\ pc = "idle"
    /\ submitted = FALSE
    /\ payload = <<>>
    /\ sent = <<>>
    /\ call = None
    /\ inflight = 0
    /\ resp = None
    /\ salary = None
    /\ outcome = None
    /\ made = None
    /\ report = None
    /\ crashed = None
    /\ r = None
    /\ analysis = None
    /\ r2 = None
    /\ insights = None
    /\ queued = FALSE
    /\ lastReport = None


(* ------------------------ the session's runs -------------------------- *)

\* Positions where the script is inside a blocking requests call.
Blocking == {"post_wait", "analyze_wait", "explain_wait"}

\* A fresh run of the script: every script variable and rendered element
\* of the previous run is gone.
BeginRun(sub) ==
    /\ pc' = "handle"
    /\ submitted' = sub
    /\ payload' = <<>>
    /\ sent' = <<>>
    /\ call' = None
    /\ resp' = None
    /\ salary' = None
    /\ outcome' = None
    /\ made' = None
    /\ report' = None
    /\ crashed' = None
    /\ r' = None
    /\ analysis' = None
    /\ r2' = None
    /\ insights' = None
    /\ queued' = FALSE
    /\ lastReport' = IF report # None
                     THEN [kind |-> "file", args |-> made, doc |-> report]
                     ELSE lastReport
    /\ UNCHANGED inflight

\* The page is opened or re-rendered without the form being submitted
\* (first load, a click on the download button).
PageView ==
    /\ pc \in {"idle", "done"}
    /\ ~queued
    /\ BeginRun(FALSE)

\* Line 142: the user presses "Predict Salary" while no run is going on.
PressButton ==
    /\ pc \in {"idle", "done"}
    /\ ~queued
    /\ BeginRun(TRUE)

\* The user presses the button while the script is running: the press is
\* kept until the running script can be stopped.
PressWhileRunning ==
    /\ pc \notin {"idle", "done"}
    /\ ~queued
    /\ queued' = TRUE
    /\ UNCHANGED <<pc, submitted, payload, sent, call, inflight, resp, salary,
                   outcome, made, report, crashed, r, analysis, r2, insights,
                   lastReport>>

\* Mutant of Rerun: the press starts a run at once, beside the blocked one.
Rerun_Immediate ==
    /\ queued
    /\ BeginRun(TRUE)

\* The kept press takes effect: the running script is stopped at its next
\* Streamlit command, never inside a blocking call, and the script is run
\* again with submitted = True.
Rerun ==
    /\ queued
    /\ pc \notin Blocking
    /\ BeginRun(TRUE)

\* Lines 146-154: if submitted, build the payload from the form's widgets.
HandleSubmission ==
    /\ pc = "handle"
    /\ IF submitted
       THEN \E f \in FormInputs :
               /\ payload' = BuildPayload(f)
               /\ pc' = "post"
       ELSE /\ pc' = "analyze"
            /\ UNCHANGED payload
    /\ UNCHANGED <<submitted, sent, call, inflight, resp, salary, outcome,
                   made, report, crashed, r, analysis, r2, insights, queued,
                   lastReport>>

\* A request goes out and the script blocks in it.
Send(req, next) ==
    /\ sent' = Append(sent, req)
    /\ \E hung \in BOOLEAN : call' = Call(req, hung)
    /\ inflight' = inflight + 1
    /\ pc' = next

\* Mutant of PostPredict: the timeout argument is left out.
PostPredict_NoTimeout ==
    /\ pc = "post"
    /\ Send(Request("POST", "/predict", JsonBody(payload), {}), "post_wait")
    /\ UNCHANGED <<submitted, payload, resp, salary, outcome, made, report,
                   crashed, r, analysis, r2, insights, queued, lastReport>>

\* Line 159: requests.post(.../predict, json=payload, headers=HEADERS, timeout=20)
PostPredict ==
    /\ pc = "post"
    /\ Send(Request("POST", "/predict", JsonBody(payload), {PREDICT_TIMEOUT}),
            "post_wait")
    /\ UNCHANGED <<submitted, payload, resp, salary, outcome, made, report,
                   crashed, r, analysis, r2, insights, queued, lastReport>>

\* The transport failures the outstanding call can end in: a timeout only
\* if the call was given one, a connection failure only if the backend is
\* not silently holding the connection.
CanFail(cause) ==
    IF cause = "Timeout" THEN call.timeout # {} ELSE ~call.hung

\* Line 159 returns a response.
PredictResponds ==
    /\ pc = "post_wait"
    /\ ~call.hung
    /\ \E status \in StatusCodes, body \in PredictBodies :
          resp' = Response(status, body)
    /\ call' = None
    /\ inflight' = inflight - 1
    /\ pc' = "dispatch"
    /\ UNCHANGED <<submitted, payload, sent, salary, outcome, made, report,
                   crashed, r, analysis, r2, insights, queued, lastReport>>

\* Mutant of PredictFails: the handler sends the request again.
PredictFails_Retry ==
    /\ pc = "post_wait"
    /\ \E cause \in TransportCauses : CanFail(cause)
    /\ call' = None
    /\ inflight' = inflight - 1
    /\ pc' = "post"
    /\ UNCHANGED <<submitted, payload, sent, resp, salary, outcome, made,
                   report, crashed, r, analysis, r2, insights, queued,
                   lastReport>>

\* Lines 160-165: requests.post raises a RequestException.
PredictFails ==
    /\ pc = "post_wait"
    /\ \E cause \in TransportCauses :
          /\ CanFail(cause)
          /\ outcome' = ConnectionError(cause)
    /\ resp' = None
    /\ call' = None
    /\ inflight' = inflight - 1
    /\ pc' = "analyze"
    /\ UNCHANGED <<submitted, payload, sent, salary, made, report,
                   crashed, r, analysis, r2, insights, queued, lastReport>>

(* ---------------------- status-code dispatch -------------------------- *)

\* Mutant of HandleOk: "if resp.status_code:" in place of "== 200".
HandleOk_AnyStatus ==
    /\ pc = "dispatch"
    /\ resp.status_code # 0
    /\ pc' = "decode"
    /\ UNCHANGED <<submitted, payload, sent, call, inflight, resp, salary,
                   outcome, made, report, crashed, r, analysis, r2, insights,
                   queued, lastReport>>

\* Line 167: resp.status_code == 200; the success branch is entered.
HandleOk ==
    /\ pc = "dispatch"
    /\ resp.status_code = 200
    /\ pc' = "decode"
    /\ UNCHANGED <<submitted, payload, sent, call, inflight, resp, salary,
                   outcome, made, report, crashed, r, analysis, r2, insights, queued,
                   lastReport>>

\* Lines 214-215.
HandleAuth ==
    /\ pc = "dispatch"
    /\ resp.status_code # 200
    /\ resp.status_code \in {401, 403}
    /\ outcome' = AuthError
    /\ pc' = "analyze"
    /\ UNCHANGED <<submitted, payload, sent, call, inflight, resp, salary,
                   made, report, crashed, r, analysis, r2, insights, queued,
                   lastReport>>

\* Lines 216-217.
HandleServer ==
    /\ pc = "dispatch"
    /\ resp.status_code # 200
    /\ resp.status_code \notin {401, 403}
    /\ resp.status_code >= 500
    /\ outcome' = ServerError
    /\ pc' = "analyze"
    /\ UNCHANGED <<submitted, payload, sent, call, inflight, resp, salary,
                   made, report, crashed, r, analysis, r2, insights, queued,
                   lastReport>>

\* Lines 218-224.
HandleOther ==
    /\ pc = "dispatch"
    /\ resp.status_code # 200
    /\ resp.status_code \notin {401, 403}
    /\ ~(resp.status_code >= 500)
    /\ outcome' = ApiError(resp.status_code, resp.body)
    /\ pc' = "analyze"
    /\ UNCHANGED <<submitted, payload, sent, call, inflight, resp, salary,
                   made, report, crashed, r, analysis, r2, insights, queued,
                   lastReport>>

\* An exception no handler catches ends the run of the script: nothing
\* below the raising line is executed.
Raise(site) ==
    /\ crashed' = [kind |-> "Exception", site |-> site]
    /\ pc' = "done"

\* Mutant of DecodeSalary: data["predicted_salary_usd"] in place of
\* data.get("predicted_salary_usd", 0).
DecodeSalary_Strict ==
    /\ pc = "decode"
    /\ IF resp.body.kind = "text"
       THEN Raise("resp.json") /\ UNCHANGED <<salary, outcome>>
       ELSE IF resp.body.kind = "array"
       THEN Raise("data.get") /\ UNCHANGED <<salary, outcome>>
       ELSE IF ~HasKey(resp.body.obj, "predicted_salary_usd")
       THEN Raise("KeyError") /\ UNCHANGED <<salary, outcome>>
       ELSE LET v == Get(resp.body.obj, "predicted_salary_usd",
                         NumV(DEFAULT_SALARY))
            IN IF ~CanFloat(v)
               THEN Raise("float") /\ UNCHANGED <<salary, outcome>>
               ELSE /\ salary' = Float(ToFloat(v))
                    /\ outcome' = Success(Float(ToFloat(v)))
                    /\ pc' = "make_pdf"
                    /\ UNCHANGED crashed
    /\ UNCHANGED <<submitted, payload, sent, call, inflight, resp, made,
                   report, r, analysis, r2, insights, queued, lastReport>>

\* Lines 168-171: data = resp.json(); salary = float(data.get(..., 0));
\* st.success(...).  None of the three is inside a try.
DecodeSalary ==
    /\ pc = "decode"
    /\ IF resp.body.kind = "text"
       THEN Raise("resp.json") /\ UNCHANGED <<salary, outcome>>
       ELSE IF resp.body.kind = "array"
       THEN Raise("data.get") /\ UNCHANGED <<salary, outcome>>
       ELSE LET v == Get(resp.body.obj, "predicted_salary_usd",
                         NumV(DEFAULT_SALARY))
            IN IF ~CanFloat(v)
               THEN Raise("float") /\ UNCHANGED <<salary, outcome>>
               ELSE /\ salary' = Float(ToFloat(v))
                    /\ outcome' = Success(Float(ToFloat(v)))
                    /\ pc' = "make_pdf"
                    /\ UNCHANGED crashed
    /\ UNCHANGED <<submitted, payload, sent, call, inflight, resp, made,
                   report, r, analysis, r2, insights, queued, lastReport>>

\* Lines 193-213: pdf_path = make_pdf(payload, salary), then the download
\* button.  Building or writing the document may raise (an encoding error
\* on a character outside the font's range, a failing temporary file); the
\* call is not inside a try.
MakePdf ==
    /\ pc = "make_pdf"
    /\ made' = [kind |-> "make_pdf", payload |-> payload, salary_val |-> salary]
    /\ \E ok \in BOOLEAN, now \in 0..MaxClock :
          IF ok
          THEN /\ report' = MakePdfDoc(payload, salary, now)
               /\ pc' = "analyze"
               /\ UNCHANGED crashed
          ELSE /\ Raise("make_pdf")
               /\ UNCHANGED report
    /\ UNCHANGED <<submitted, payload, sent, call, inflight, resp, salary,
                   outcome, r, analysis, r2, insights, queued, lastReport>>

(* ------------------------- the analytics tabs ------------------------- *)

\* Line 237: requests.get(.../analyze, headers=HEADERS, timeout=12)
GetAnalyze ==
    /\ pc = "analyze"
    /\ Send(Request("GET", "/analyze", <<>>, {ANALYTICS_TIMEOUT}),
            "analyze_wait")
    /\ UNCHANGED <<submitted, payload, resp, salary, outcome, made, report,
                   crashed, r, analysis, r2, insights, queued, lastReport>>

\* Lines 238-259: the response is rendered; whatever rendering raises is
\* caught at line 260.
AnalyzeResponds ==
    /\ pc = "analyze_wait"
    /\ ~call.hung
    /\ \E status \in AnalyticsStatusCodes, body \in AnalyzeBodies :
          /\ r' = Response(status, body)
          /\ analysis' = AnalyzeOutcome(status, body)
    /\ call' = None
    /\ inflight' = inflight - 1
    /\ pc' = "explain"
    /\ UNCHANGED <<submitted, payload, sent, resp, salary, outcome, made,
                   report, crashed, r2, insights, queued, lastReport>>

\* Mutant of AnalyzeFails: the request is made outside the try.
AnalyzeFails_Raises ==
    /\ pc = "analyze_wait"
    /\ \E cause \in TransportCauses : CanFail(cause)
    /\ Raise("requests.get")
    /\ call' = None
    /\ inflight' = inflight - 1
    /\ UNCHANGED <<submitted, payload, sent, resp, salary, outcome, made,
                   report, r, analysis, r2, insights, queued, lastReport>>

\* Lines 260-261: requests.get raised.
AnalyzeFails ==
    /\ pc = "analyze_wait"
    /\ \E cause \in TransportCauses :
          /\ CanFail(cause)
          /\ analysis' = Unavailable([by |-> cause])
    /\ call' = None
    /\ inflight' = inflight - 1
    /\ pc' = "explain"
    /\ UNCHANGED <<submitted, payload, sent, resp, salary, outcome, made,
                   report, crashed, r, r2, insights, queued, lastReport>>

\* Line 267: requests.get(.../explain, headers=HEADERS, timeout=12)
GetExplain ==
    /\ pc = "explain"
    /\ Send(Request("GET", "/explain", <<>>, {ANALYTICS_TIMEOUT}),
            "explain_wait")
    /\ UNCHANGED <<submitted, payload, resp, salary, outcome, made, report,
                   crashed, r, analysis, r2, insights, queued, lastReport>>

\* Lines 268-279, with the handler of line 280.
ExplainResponds ==
    /\ pc = "explain_wait"
    /\ ~call.hung
    /\ \E status \in AnalyticsStatusCodes, body \in ExplainBodies :
          /\ r2' = Response(status, body)
          /\ insights' = ExplainOutcome(status, body)
    /\ call' = None
    /\ inflight' = inflight - 1
    /\ pc' = "done"
    /\ UNCHANGED <<submitted, payload, sent, resp, salary, outcome, made,
                   report, crashed, r, analysis, queued, lastReport>>

\* Lines 280-281: requests.get raised.
ExplainFails ==
    /\ pc = "explain_wait"
    /\ \E cause \in TransportCauses :
          /\ CanFail(cause)
          /\ insights' = Unavailable([by |-> cause])
    /\ call' = None
    /\ inflight' = inflight - 1
    /\ pc' = "done"
    /\ UNCHANGED <<submitted, payload, sent, resp, salary, outcome, made,
                   report, crashed, r, analysis, r2, queued, lastReport>>

(* --------------------------- specification ---------------------------- *)

\* What the user does.
UserStep == PageView \/ PressButton \/ PressWhileRunning

\* What the running script and the backend do.
ScriptStep ==
    \/ Rerun
    \/ HandleSubmission
    \/ PostPredict
    \/ PredictResponds
    \/ PredictFails
    \/ HandleOk
    \/ HandleAuth
    \/ HandleServer
    \/ HandleOther
    \/ DecodeSalary
    \/ MakePdf
    \/ GetAnalyze
    \/ AnalyzeResponds
    \/ AnalyzeFails
    \/ GetExplain
    \/ ExplainResponds
    \/ ExplainFails

Next == UserStep \/ ScriptStep

Spec == Init /\ [][Next]_vars

\* The script runs on: a step that stays possible is eventually taken.
\* Nothing is assumed about the user.
FairSpec == Spec /\ WF_vars(ScriptStep)

(* ------------------------------ claims -------------------------------- *)

\* Positions below the submission handler (lines 226 and on).
BelowHandler == {"analyze", "analyze_wait", "explain", "explain_wait", "done"}

\* The run's submission has been handled to its end.
PredictDone == submitted /\ pc \in BelowHandler

\* The outcome kind the status code alone stands for.
KindOf(status) ==
    IF status = 200 THEN "Success"
    ELSE IF status \in {401, 403} THEN "AuthError"
    ELSE IF status >= 500 THEN "ServerError"
    ELSE "ApiError"

\* C1: whenever the predict call got a response, the handled submission
\* shows the one outcome kind its status code stands for (200 Success,
\* 401/403 AuthError, >= 500 ServerError, anything else ApiError with the
\* code and the best-effort body), whatever the body is.
C1_StatusAloneDecides ==
    (PredictDone /\ resp # None) =>
        /\ outcome.kind = KindOf(resp.status_code)
        /\ outcome.kind = "ApiError" =>
              /\ outcome.code = resp.status_code
              /\ outcome.body = BestEffortBody(resp.body)

\* C2: a report (the make_pdf call, the download button) exists only in a
\* run whose submission got status 200 and decoded a salary from it; none
\* exists after a failure outcome or without a submission.
C2_ReportOnlyAfterSuccess ==
    /\ (made # None \/ report # None) =>
          /\ submitted
          /\ Count("/predict") = 1
          /\ resp # None
          /\ resp.status_code = 200
          /\ salary # None
          /\ outcome = Success(salary)
          /\ made # None
          /\ made.salary_val = salary
          /\ report # None => report.salary = salary
    /\ outcome.kind \in {"ConnectionError", "AuthError", "ServerError", "ApiError"}
          => (made = None /\ report = None)
    /\ ~submitted => (made = None /\ report = None)

C2_Witness ==
    /\ report # None
    /\ resp.status_code = 200
    /\ outcome.kind = "Success"

\* C3: no run ends in an exception that nothing handles.
C3_NoUnhandledException == crashed = None

\* C4: a transport failure of the predict call ends the submission in
\* ConnectionError with the cause, takes no status branch, and produces no
\* salary and no report; and the call never stays outstanding forever.
C4_TransportFailure ==
    /\ []((PredictDone /\ resp = None) =>
             /\ outcome.kind = "ConnectionError"
             /\ outcome.cause \in TransportCauses
             /\ salary = None
             /\ made = None
             /\ report = None
             /\ crashed = None)
    /\ ((pc = "post_wait") ~> (pc # "post_wait"))

C4_Witness ==
    /\ PredictDone
    /\ resp = None
    /\ outcome = ConnectionError("Timeout")

\* C5: a run issues one POST /predict if the form was submitted and none
\* otherwise, and at most one GET /analyze and one GET /explain, whatever
\* the calls end in.
C5_NoAutomaticRetry ==
    /\ Count("/predict") <= 1
    /\ Count("/analyze") <= 1
    /\ Count("/explain") <= 1
    /\ Len(sent) = Count("/predict") + Count("/analyze") + Count("/explain")
    /\ PredictDone => Count("/predict") = 1
    /\ ~submitted => Count("/predict") = 0
    /\ pc \in {"explain", "explain_wait"} => Count("/analyze") = 1
    /\ (pc = "done" /\ crashed = None) =>
          (Count("/analyze") = 1 /\ Count("/explain") = 1)

C5_Witness ==
    /\ pc = "done"
    /\ outcome.kind = "ConnectionError"
    /\ analysis.kind = "Unavailable"
    /\ insights.kind = "Unavailable"
    /\ Len(sent) = 3

\* An analytics response that is not a well-formed success.
BadRead(rr) ==
    \/ rr = None
    \/ rr.status_code # 200
    \/ rr.body.kind # "object"

\* C6: each analytics read that fails (transport error, status other than
\* 200, undecodable or malformed body) shows Unavailable with a cause and
\* raises nothing, and /explain is read and rendered whatever /analyze
\* ended in.
C6_AnalyticsBestEffort ==
    /\ (pc \in {"explain", "explain_wait", "done"} /\ Count("/analyze") = 1) =>
          /\ analysis.kind \in {"Summary", "Unavailable"}
          /\ BadRead(r) => analysis.kind = "Unavailable"
          /\ r = None => analysis.cause.by \in TransportCauses
          /\ analysis.kind = "Summary" => r.status_code = 200
    /\ (pc = "done" /\ Count("/analyze") = 1) =>
          /\ Count("/explain") = 1
          /\ insights.kind \in {"Features", "NoFeatureInfo", "Unavailable"}
          /\ BadRead(r2) => insights.kind = "Unavailable"
          /\ r2 = None => insights.cause.by \in TransportCauses
          /\ insights.kind = "Features" => r2.status_code = 200
    /\ crashed # None => (Count("/analyze") = 0 /\ Count("/explain") = 0)

C6_Witness ==
    /\ pc = "done"
    /\ r = None
    /\ analysis.kind = "Unavailable"
    /\ insights.kind = "Features"

\* C7: when make_pdf fails, the submission shows a ReportGenerationError
\* outcome, and no document is offered.
C7_ReportFailureIsAnOutcome ==
    (made # None /\ pc \in BelowHandler /\ report = None) =>
        /\ outcome.kind = "ReportGenerationError"
        /\ crashed = None

\* The body of a 200 response is a JSON object without predicted_salary_usd.
LacksSalary ==
    /\ resp # None
    /\ resp.status_code = 200
    /\ resp.body.kind = "object"
    /\ ~HasKey(resp.body.obj, "predicted_salary_usd")

\* C8: a 200 response whose body lacks predicted_salary_usd gives Success
\* with salary 0, and the report is made for salary 0; decoding does not
\* fail.
C8_MissingSalaryIsZero ==
    (LacksSalary /\ pc \notin {"dispatch", "decode"}) =>
        /\ outcome = Success(Float(0))
        /\ salary = Float(0)
        /\ pc # "make_pdf" => (made # None /\ made.salary_val = Float(0))
        /\ report # None => report.salary = Float(0)
        /\ crashed # None => crashed.site = "make_pdf"

C8_Witness ==
    /\ LacksSalary
    /\ outcome = Success(Float(0))
    /\ report # None
    /\ report.salary = Float(0)

FieldOrder ==
    <<"age", "education", "job_title", "hours_per_week", "gender",
      "marital_status">>

\* A document with its timestamp blanked.
NoStamp(doc) == [doc EXCEPT !.generated = 0]

\* C9: the report lists exactly the six fields of the run's /predict
\* request, in the order age, education, job_title, hours_per_week, gender,
\* marital_status, each with the value that was sent; two reports made from
\* the same input and salary differ in nothing but the timestamp.
C9_ReportMatchesRequest ==
    /\ made # None =>
          /\ Count("/predict") = 1
          /\ sent[1].url[2] = "/predict"
          /\ Len(sent[1].json) = Len(FieldOrder)
          /\ \A i \in 1..Len(FieldOrder) :
                /\ sent[1].json[i][1] = FieldOrder[i]
                /\ JsonDecode(sent[1].json[i][2]) = made.payload[i][2]
    /\ report # None =>
          /\ Len(report.inputs) = Len(FieldOrder)
          /\ \A i \in 1..Len(FieldOrder) :
                /\ report.inputs[i].key = sent[1].json[i][1]
                /\ report.inputs[i].text = Format(JsonDecode(sent[1].json[i][2]))
    /\ (report # None /\ lastReport # None /\ lastReport.args = made) =>
          NoStamp(lastReport.doc) = NoStamp(report)

C9_Witness ==
    /\ report # None
    /\ lastReport # None
    /\ lastReport.args = made
    /\ lastReport.doc.generated # report.generated

=============================================================================
